---- MODULE Spec2Model ----
(***************************************************************************)
(* Model of the VoiceScribe backend: the Vosk transcription pipeline of    *)
(* backend/vosk_utils.py and the FastAPI handlers of backend/server.py.    *)
(*                                                                         *)
(* Text is a sequence of one-character strings.  A temporary file is a     *)
(* small positive integer (its name); 0 stands for Python's None where a   *)
(* path is expected, and the empty tuple for None where a model or a       *)
(* result is expected.                                                     *)
(***************************************************************************)
EXTENDS Integers, Sequences, FiniteSets, TLC

----------------------------------------------------------------------------
(* Bounds of the model *)

\* longest audio, in chunks read by wf.readframes
MaxChunks == 2
\* temporary files that can exist at the same time
MaxTmp == 3
\* longest raw transcript explored by the text specification
MaxLen == 4

----------------------------------------------------------------------------
(* Text: str.strip, str.split, str.join, str.capitalize, str.endswith *)

Chars == {"a", "A", ".", " "}

Upper(ch) == IF ch = "a" THEN "A" ELSE ch

Lower(ch) == IF ch = "A" THEN "a" ELSE ch

RECURSIVE LStrip(_)
LStrip(s) == IF s # <<>> /\ Head(s) = " " THEN LStrip(Tail(s)) ELSE s

RECURSIVE RStrip(_)
RStrip(s) ==
    IF s # <<>> /\ s[Len(s)] = " " THEN RStrip(SubSeq(s, 1, Len(s) - 1)) ELSE s

\* str.strip()
Strip(s) == RStrip(LStrip(s))

\* sep.join(parts)
RECURSIVE Join(_, _)
Join(parts, sep) ==
    IF parts = <<>> THEN <<>>
    ELSE IF Len(parts) = 1 THEN parts[1]
    ELSE parts[1] \o sep \o Join(Tail(parts), sep)

\* s.split('. '): cut at every occurrence of ". ", left to right
RECURSIVE Split(_)
Split(s) ==
    LET hits == {i \in 1..(Len(s) - 1) : s[i] = "." /\ s[i + 1] = " "}
    IN  IF hits = {} THEN <<s>>
        ELSE LET i == CHOOSE k \in hits : \A j \in hits : k <= j
             IN  <<SubSeq(s, 1, i - 1)>> \o Split(SubSeq(s, i + 2, Len(s)))

\* a variant that upper-cases the first character and keeps the rest
CapitalizeKeepRest(s) ==
    IF s = <<>> THEN <<>> ELSE <<Upper(s[1])>> \o Tail(s)

\* s.capitalize(): first character upper-cased, all the others lower-cased
Capitalize(s) ==
    IF s = <<>> THEN <<>>
    ELSE <<Upper(s[1])>> \o [i \in 1..(Len(s) - 1) |-> Lower(s[i + 1])]

\* s.endswith('.')
EndsWithPeriod(s) == s # <<>> /\ s[Len(s)] = "."

\* a variant that appends the period without the `if final_text:` guard
PostProcessUnguarded(final_text) ==
    LET sentences == Split(final_text)
        joined == Join([i \in 1..Len(sentences) |-> Capitalize(sentences[i])],
                       <<".", " ">>)
    IN  IF EndsWithPeriod(joined) THEN joined ELSE joined \o <<".">>

\* the post-processing block of transcribe_audio
PostProcess(final_text) ==
    IF final_text # <<>>
    THEN LET sentences == Split(final_text)
             joined == Join([i \in 1..Len(sentences) |-> Capitalize(sentences[i])],
                            <<".", " ">>)
         IN  IF EndsWithPeriod(joined) THEN joined ELSE joined \o <<".">>
    ELSE final_text

\* result.get('text', '').strip() is truthy
NonBlank(text) == Strip(text) # <<>>

\* " ".join(result_text).strip()
JoinResults(result_text) == Strip(Join(result_text, <<" ">>))

----------------------------------------------------------------------------
(* Configuration and state *)

\* the keys of MODEL_PATHS
Langs == {"en", "ru", "kz"}

\* language strings a caller may pass; "fr" stands for any unknown code
LanguageInputs == Langs \cup {"auto", "fr"}

\* texts the recognizer returns in the 'text' field of Result()/FinalResult()
Fragments == {<<>>, <<" ">>, <<"a", "A">>}

\* what one recognizer.AcceptWaveform(data) call does with one chunk:
\* no utterance boundary, a boundary with a text, or an exception;
\* "eof" is wf.readframes returning no data
EOF == [kind |-> "eof", text |-> <<>>]

ChunkEvents ==
    {[kind |-> "none", text |-> <<>>], [kind |-> "raise", text |-> <<>>]}
    \cup {[kind |-> "text", text |-> f] : f \in Fragments}

VARIABLES
    VOSK_AVAILABLE,   \* module flag set by `import vosk`
    PYDUB_AVAILABLE,  \* module flag set by `from pydub import AudioSegment`
    pathExists,       \* [Langs -> BOOLEAN]: MODEL_PATHS[lang].exists()
    _model_cache,     \* the dict lang -> Model
    loads,            \* [Langs -> Nat]: Model(...) objects constructed so far
    tmpFiles,         \* names of the temporary files that exist on disk
    frame,            \* locals of the transcribe_audio call on the event loop:
                      \*   made: the temporary file convert_audio_to_wav created,
                      \*   fault: the stage that failed, "" when none has,
                      \*   heard: the recognizer returned a text that is not
                      \*     only whitespace,
                      \*   ops: what was done with the recognizer of this call
                      \*     ("new", "feed", "final"), in order
                      \*   (made, fault, heard, ops are history)
    gm,               \* locals of the get_model call of every thread
    script,           \* <<>>, or <<s>>: the environment replays s
    pair,             \* the two calls compared by SpecPair
    reqs,             \* the POST /transcribe requests and their handlers
    db,               \* ids of the documents in db.transcriptions
    health,           \* the GET /health request and its last response
    hist              \* the last GET or DELETE /transcriptions/{id} request:
                      \*   its id and HTTP status, and the ids deleted so far

worldVars == <<VOSK_AVAILABLE, PYDUB_AVAILABLE, pathExists, _model_cache,
               loads, tmpFiles>>

restVars == <<script, pair, reqs, db, health, hist>>

vars == <<worldVars, frame, gm, restVars>>

\* concurrent callers of get_model besides the event loop
NumThreads == 2

\* thread 0 is the event loop; threads 1..NumThreads call get_model directly
Threads == 0..NumThreads

IdleFrame ==
    [pc |-> "idle", caller |-> 0, language |-> "", vosk_lang |-> "",
     wav_path |-> 0, made |-> 0, recognizer |-> <<>>, result_text |-> <<>>,
     pos |-> 0, pending |-> <<>>, ret |-> <<>>, fault |-> "", heard |-> FALSE,
     ops |-> <<>>]

\* no GET or DELETE /transcriptions/{id} request yet
NoHist == [op |-> "", id |-> 0, status |-> 0, deleted |-> {}]

IdleGm == [pc |-> "idle", lang |-> "", model |-> <<>>, ret |-> <<>>]

\* tempfile.NamedTemporaryFile picks a name no existing file has
FreshTmp == CHOOSE n \in 1..MaxTmp : n \notin tmpFiles

CanCreateTmp == \E n \in 1..MaxTmp : n \notin tmpFiles

----------------------------------------------------------------------------
(* The environment: what the libraries and the file system answer.  With   *)
(* an empty script every outcome is possible; with a script the outcomes   *)
(* are the recorded ones, so that two calls can be given the same audio    *)
(* and the same faults.                                                    *)

Scripted == script # <<>>

\* AudioSegment.from_file / audio.export: decoded and exported, not
\* decodable, or the export fails after the temporary file was created
ConvertOutcomes ==
    IF Scripted THEN {script[1].convert}
    ELSE {"ok", "decode_fail", "export_fail"}

\* Model(str(model_path)) raises
LoadFails == IF Scripted THEN {script[1].load} ELSE BOOLEAN

\* KaldiRecognizer(model, sample_rate) raises
RecognizerFails == IF Scripted THEN {script[1].recognizer} ELSE BOOLEAN

\* wave.open(wav_path, 'rb') raises
OpenFails == IF Scripted THEN {script[1].open} ELSE BOOLEAN

\* the chunk read at position pos and what AcceptWaveform does with it
FeedEvents(pos) ==
    IF Scripted
    THEN {IF pos <= Len(script[1].chunks) THEN script[1].chunks[pos] ELSE EOF}
    ELSE IF pos <= MaxChunks THEN ChunkEvents \cup {EOF} ELSE {EOF}

\* recognizer.FinalResult(): raises, or returns a text; with no audio fed
\* there is nothing buffered and the text is empty
FinalEvents(pos) ==
    LET all == {[kind |-> "raise", text |-> <<>>]}
               \cup {[kind |-> "text", text |-> f] : f \in Fragments}
        possible == {e \in all : pos = 1 /\ e.kind = "text" => e.text = <<>>}
    IN  IF Scripted THEN {script[1].final} \cap possible ELSE possible

\* os.unlink(wav_path) raises
UnlinkFails == IF Scripted THEN {script[1].unlink} ELSE BOOLEAN

----------------------------------------------------------------------------
(* get_model, one step per statement so that threads can interleave *)

\* the dict after _model_cache[lang] = model
CachePut(cache, lang, model) ==
    [l \in DOMAIN cache \cup {lang} |-> IF l = lang THEN model ELSE cache[l]]

\* the Model object the next successful Model(path) call constructs
NewModel(lang) == <<lang, loads[lang] + 1>>

\* a variant without the cache lookup
GM_CheckNoCache(t) ==
    /\ gm[t].pc = "check"
    /\ gm' = [gm EXCEPT ![t] =
                IF ~VOSK_AVAILABLE
                THEN [@ EXCEPT !.pc = "ret", !.ret = <<>>]
                ELSE [@ EXCEPT !.pc = "path"]]
    /\ UNCHANGED <<worldVars, frame, restVars>>

\* `if not VOSK_AVAILABLE: return None`, `if lang in _model_cache: return ...`
GM_Check(t) ==
    /\ gm[t].pc = "check"
    /\ gm' = [gm EXCEPT ![t] =
                IF ~VOSK_AVAILABLE
                THEN [@ EXCEPT !.pc = "ret", !.ret = <<>>]
                ELSE IF gm[t].lang \in DOMAIN _model_cache
                THEN [@ EXCEPT !.pc = "ret", !.ret = _model_cache[gm[t].lang]]
                ELSE [@ EXCEPT !.pc = "path"]]
    /\ UNCHANGED <<worldVars, frame, restVars>>

\* `if not model_path or not model_path.exists(): return None`
GM_Path(t) ==
    /\ gm[t].pc = "path"
    /\ gm' = [gm EXCEPT ![t] =
                IF gm[t].lang \notin Langs \/ ~pathExists[gm[t].lang]
                THEN [@ EXCEPT !.pc = "ret", !.ret = <<>>]
                ELSE [@ EXCEPT !.pc = "load"]]
    /\ UNCHANGED <<worldVars, frame, restVars>>

\* `model = Model(str(model_path))`, or the except branch returning None
GM_Load(t) ==
    /\ gm[t].pc = "load"
    /\ \E fails \in LoadFails :
          IF fails
          THEN /\ gm' = [gm EXCEPT ![t] = [@ EXCEPT !.pc = "ret", !.ret = <<>>]]
               /\ UNCHANGED loads
          ELSE /\ gm' = [gm EXCEPT ![t] =
                           [@ EXCEPT !.pc = "store",
                                     !.model = NewModel(gm[t].lang)]]
               /\ loads' = [loads EXCEPT ![gm[t].lang] = @ + 1]
    /\ UNCHANGED <<VOSK_AVAILABLE, PYDUB_AVAILABLE, pathExists, _model_cache,
                   tmpFiles, frame, restVars>>

\* `_model_cache[lang] = model; return model`
GM_Store(t) ==
    /\ gm[t].pc = "store"
    /\ _model_cache' = CachePut(_model_cache, gm[t].lang, gm[t].model)
    /\ gm' = [gm EXCEPT ![t] = [@ EXCEPT !.pc = "ret", !.ret = gm[t].model]]
    /\ UNCHANGED <<VOSK_AVAILABLE, PYDUB_AVAILABLE, pathExists, loads,
                   tmpFiles, frame, restVars>>

get_model(t) == GM_Check(t) \/ GM_Path(t) \/ GM_Load(t) \/ GM_Store(t)

----------------------------------------------------------------------------
(* transcribe_audio, one step per stage *)

\* the failure dictionaries transcribe_audio returns
Failure(msg) == [success |-> FALSE, error |-> msg, text |-> <<>>]

\* f"Failed to load speech recognition model for {vosk_lang}"
ModelError(vosk_lang) ==
    CASE vosk_lang = "en" -> "Failed to load speech recognition model for en"
      [] vosk_lang = "ru" -> "Failed to load speech recognition model for ru"
      [] OTHER -> "Failed to load speech recognition model for kz"

\* a language map that sends "auto" to Russian
lang_map_auto_ru ==
    [l \in {"en", "ru", "kz", "auto"} |-> IF l = "auto" THEN "ru" ELSE l]

\* the lang_map dictionary
lang_map ==
    [l \in {"en", "ru", "kz", "auto"} |-> IF l = "auto" THEN "en" ELSE l]

\* lang_map.get(language, "en")
ResolveLanguage(language) ==
    IF language \in DOMAIN lang_map THEN lang_map[language] ELSE "en"

\* the call transcribe_audio(file_path, language) made by `caller`
Enter(caller, language) ==
    [IdleFrame EXCEPT !.pc = "enter", !.caller = caller, !.language = language]

\* what the call returns, and control going back to the caller
Return(f, value) == [f EXCEPT !.pc = "returned", !.ret = <<value>>]

\* the VOSK_AVAILABLE check and the language mapping
T_Enter ==
    /\ frame.pc = "enter"
    /\ frame' = IF ~VOSK_AVAILABLE
                THEN Return([frame EXCEPT !.fault = "engine"],
                            Failure("Vosk speech recognition is not available"))
                ELSE [frame EXCEPT !.pc = "convert",
                                   !.vosk_lang = ResolveLanguage(frame.language)]
    /\ UNCHANGED <<worldVars, gm, restVars>>

\* convert_audio_to_wav: the path it returns (0 for None) and the temporary
\* file it created (0 for none)
convert_audio_to_wav(outcome) ==
    IF ~PYDUB_AVAILABLE THEN [wav_path |-> 0, created |-> 0]
    ELSE IF outcome = "decode_fail" \/ ~CanCreateTmp
    THEN [wav_path |-> 0, created |-> 0]
    ELSE IF outcome = "export_fail" THEN [wav_path |-> 0, created |-> FreshTmp]
    ELSE [wav_path |-> FreshTmp, created |-> FreshTmp]

\* `wav_path = convert_audio_to_wav(file_path)` and `if not wav_path: return`
T_Convert ==
    /\ frame.pc = "convert"
    /\ \E outcome \in ConvertOutcomes :
          LET c == convert_audio_to_wav(outcome)
          IN  /\ tmpFiles' = IF c.created = 0 THEN tmpFiles
                             ELSE tmpFiles \cup {c.created}
              /\ frame' =
                   IF c.wav_path = 0
                   THEN Return([frame EXCEPT !.made = c.created,
                                             !.fault = "convert"],
                               Failure("Failed to convert audio to WAV format"))
                   ELSE [frame EXCEPT !.pc = "recognizer",
                                      !.wav_path = c.wav_path,
                                      !.made = c.created]
    /\ UNCHANGED <<VOSK_AVAILABLE, PYDUB_AVAILABLE, pathExists, _model_cache,
                   loads, gm, restVars>>

\* get_recognizer calling get_model(lang)
T_GetRecognizer ==
    /\ frame.pc = "recognizer"
    /\ frame' = [frame EXCEPT !.pc = "get_model"]
    /\ gm' = [gm EXCEPT ![0] = [IdleGm EXCEPT !.pc = "check",
                                             !.lang = frame.vosk_lang]]
    /\ UNCHANGED <<worldVars, restVars>>

\* the rest of get_recognizer: None without a model or when
\* KaldiRecognizer raises, else a recognizer bound to the model
get_recognizer(model, fails) ==
    IF model = <<>> THEN <<>> ELSE IF fails THEN <<>> ELSE model

\* get_recognizer returning, and `if not recognizer: return`
T_Recognizer ==
    /\ frame.pc = "get_model"
    /\ gm[0].pc = "ret"
    /\ \E fails \in RecognizerFails :
          LET recognizer == get_recognizer(gm[0].ret, fails)
          IN  frame' = IF recognizer = <<>>
                       THEN Return([frame EXCEPT !.fault =
                                      IF gm[0].ret = <<>> THEN "model"
                                      ELSE "recognizer"],
                                   Failure(ModelError(frame.vosk_lang)))
                       ELSE [frame EXCEPT !.pc = "open",
                                          !.recognizer = recognizer,
                                          !.ops = <<"new">>,
                                          !.result_text = <<>>]
    /\ gm' = [gm EXCEPT ![0] = IdleGm]
    /\ UNCHANGED <<worldVars, restVars>>

\* a variant that returns the fragments collected so far with the failure
CaughtWithPartialText(f, stage) ==
    [f EXCEPT !.pc = "finally", !.fault = stage,
              !.pending = <<[success |-> FALSE,
                             error |-> "Audio processing failed",
                             text |-> Strip(Join(f.result_text, <<" ">>))]>>]

\* `except Exception as e:` of the processing block, entered from `stage`:
\* the failure to return once the finally clause has run
Caught(f, stage) ==
    [f EXCEPT !.pc = "finally", !.fault = stage,
              !.pending = <<Failure("Audio processing failed")>>]

\* a variant without the outer handler: the exception leaves the call
OuterExceptMissing(f) == [f EXCEPT !.pc = "raised"]

\* the outer `except Exception as e:` of transcribe_audio
OuterExcept(f) == Return(f, Failure("Transcription failed"))

\* the text has a character that str.strip() keeps
HasVisible(text) == \E i \in 1..Len(text) : text[i] # " "

\* `with wave.open(wav_path, 'rb') as wf:`
T_Open ==
    /\ frame.pc = "open"
    /\ \E fails \in OpenFails :
          frame' = IF fails THEN Caught(frame, "open")
                   ELSE [frame EXCEPT !.pc = "feed", !.pos = 1]
    /\ UNCHANGED <<worldVars, gm, restVars>>

\* a variant that appends every text, blank or not
CollectAll(result_text, text) == Append(result_text, text)

\* result_text after `if result.get('text', '').strip(): result_text.append`
Collect(result_text, text) ==
    IF NonBlank(text) THEN Append(result_text, text) ELSE result_text

\* one iteration of the `while True:` loop
T_Feed ==
    /\ frame.pc = "feed"
    /\ \E e \in FeedEvents(frame.pos) :
          frame' =
            CASE e.kind = "eof" -> [frame EXCEPT !.pc = "final"]
              [] e.kind = "raise" ->
                    Caught([frame EXCEPT !.ops = Append(@, "feed")], "feed")
              [] e.kind = "none" -> [frame EXCEPT !.pos = @ + 1,
                                                  !.ops = Append(@, "feed")]
              [] OTHER -> [frame EXCEPT !.pos = @ + 1,
                                        !.ops = Append(@, "feed"),
                                        !.heard = @ \/ HasVisible(e.text),
                                        !.result_text = Collect(@, e.text)]
    /\ UNCHANGED <<worldVars, gm, restVars>>

\* a variant that calls recognizer.FinalResult() a second time
T_FinalTwice ==
    /\ frame.pc = "final"
    /\ \E e \in FinalEvents(frame.pos) :
          frame' = IF e.kind = "raise"
                   THEN Caught([frame EXCEPT !.ops = Append(@, "final")],
                               "final")
                   ELSE [frame EXCEPT !.pc = "finally",
                                      !.ops = @ \o <<"final", "final">>,
                                      !.heard = @ \/ HasVisible(e.text),
                                      !.result_text = Collect(@, e.text)]
    /\ UNCHANGED <<worldVars, gm, restVars>>

\* `final_result = json.loads(recognizer.FinalResult())` and its append
T_Final ==
    /\ frame.pc = "final"
    /\ \E e \in FinalEvents(frame.pos) :
          frame' = IF e.kind = "raise"
                   THEN Caught([frame EXCEPT !.ops = Append(@, "final")],
                               "final")
                   ELSE [frame EXCEPT !.pc = "finally",
                                      !.ops = Append(@, "final"),
                                      !.heard = @ \/ HasVisible(e.text),
                                      !.result_text = Collect(@, e.text)]
    /\ UNCHANGED <<worldVars, gm, restVars>>

\* the finally clause; an exception of os.unlink reaches the outer
\* `except Exception` and becomes its failure dictionary
T_Finally ==
    /\ frame.pc = "finally"
    /\ IF frame.wav_path \in tmpFiles
       THEN \E fails \in UnlinkFails :
               IF fails
               THEN /\ frame' = OuterExcept([frame EXCEPT !.fault = "unlink"])
                    /\ UNCHANGED tmpFiles
               ELSE /\ tmpFiles' = tmpFiles \ {frame.wav_path}
                    /\ frame' = IF frame.pending # <<>>
                                THEN Return(frame, frame.pending[1])
                                ELSE [frame EXCEPT !.pc = "post"]
       ELSE /\ UNCHANGED tmpFiles
            /\ frame' = IF frame.pending # <<>>
                        THEN Return(frame, frame.pending[1])
                        ELSE [frame EXCEPT !.pc = "post"]
    /\ UNCHANGED <<VOSK_AVAILABLE, PYDUB_AVAILABLE, pathExists, _model_cache,
                   loads, gm, restVars>>

\* the dictionary returned on success
Success(text, vosk_lang) ==
    [success |-> TRUE, text |-> text, language |-> vosk_lang,
     confidence |-> "0.8"]

\* joining, post-processing and the successful return
T_Post ==
    /\ frame.pc = "post"
    /\ frame' = Return(frame, Success(PostProcess(JoinResults(frame.result_text)),
                                      frame.vosk_lang))
    /\ UNCHANGED <<worldVars, gm, restVars>>

transcribe_audio ==
    \/ T_Enter \/ T_Convert \/ T_GetRecognizer \/ get_model(0) \/ T_Recognizer
    \/ T_Open \/ T_Feed \/ T_Final \/ T_Finally \/ T_Post

----------------------------------------------------------------------------
(* Direct calls of transcribe_audio, one after the other *)

InitWorld ==
    /\ VOSK_AVAILABLE \in BOOLEAN
    /\ PYDUB_AVAILABLE \in BOOLEAN
    /\ pathExists \in [Langs -> BOOLEAN]
    /\ _model_cache = <<>>
    /\ loads = [l \in Langs |-> 0]
    /\ tmpFiles = {}

D_Call ==
    /\ frame.pc = "idle"
    /\ \E language \in LanguageInputs : frame' = Enter(0, language)
    /\ UNCHANGED <<worldVars, gm, restVars>>

D_Return ==
    /\ frame.pc = "returned"
    /\ frame.caller = 0
    /\ frame' = IdleFrame
    /\ UNCHANGED <<worldVars, gm, restVars>>

\* no script, no comparison, no HTTP traffic
InitRest ==
    /\ script = <<>>
    /\ pair = [phase |-> "off", auto |-> <<>>, en |-> <<>>]
    /\ reqs = <<>>
    /\ db = {}
    /\ health = [pending |-> FALSE, response |-> <<>>]
    /\ hist = NoHist

InitCore ==
    /\ InitWorld
    /\ frame = IdleFrame
    /\ gm = [t \in Threads |-> IdleGm]
    /\ InitRest

NextCore ==
    \/ D_Call \/ D_Return
    \/ T_Enter \/ T_Convert \/ T_GetRecognizer
    \/ GM_Check(0) \/ GM_Path(0) \/ GM_Load(0) \/ GM_Store(0)
    \/ T_Recognizer \/ T_Open \/ T_Feed \/ T_Final \/ T_Finally \/ T_Post

SpecCore == InitCore /\ [][NextCore]_vars

----------------------------------------------------------------------------
(* Properties of transcribe_audio, checked under SpecCore *)

\* the value the finished call returned
Returned == frame.pc = "returned"

Result == frame.ret[1]

\* C1: once transcribe_audio has returned, the temporary WAV file that
\* convert_audio_to_wav created during the call no longer exists, on every
\* exit path.
C1_TempWavDeleted == Returned => frame.made \notin tmpFiles

\* C2: no fault leaves transcribe_audio as an exception: whichever stage
\* fails, the call goes on until it returns, and it returns a result with
\* success = false and an error message.
C2_NeverRaises ==
    /\ frame.pc # "raised"
    /\ frame.pc \notin {"idle", "returned"} => ENABLED transcribe_audio
    /\ Returned /\ frame.fault # "" =>
          /\ ~Result.success
          /\ "error" \in DOMAIN Result
          /\ Result.error # ""

C2_Witness == Returned /\ frame.fault = "unlink" /\ ~Result.success

\* C3: a failed call returns success = false, an empty text and a non-empty
\* error; fragments collected before the failure are not returned.
C3_FailureShape ==
    Returned /\ ~Result.success =>
        /\ Result.text = <<>>
        /\ "error" \in DOMAIN Result
        /\ Result.error # ""

C3_Witness ==
    Returned /\ ~Result.success /\ frame.fault = "feed"
             /\ frame.result_text # <<>>

\* C6: a direct call with a language that is neither in {en, ru, kz} nor
\* "auto" returns a failure (success = false): nothing is transcribed.
C6_UnknownLanguageFails ==
    Returned /\ frame.language \notin (Langs \cup {"auto"}) => ~Result.success

\* C9: a successful result has a text that is empty or ends with a period;
\* it is empty exactly when the recognizer returned no text with a
\* non-whitespace character; a zero-length stream gives success with an
\* empty text and no error.
C9_SuccessText ==
    Returned /\ Result.success =>
        /\ Result.text = <<>> \/ Result.text[Len(Result.text)] = "."
        /\ Result.text = <<>> <=> ~frame.heard
        /\ frame.pos = 1 => Result.text = <<>> /\ "error" \notin DOMAIN Result

C9_Witness ==
    Returned /\ Result.success /\ frame.pos = 1 /\ Result.text = <<>>

\* C13: every result of transcribe_audio, failed or not, has the fields
\* success, text and language, the language being the resolved language
\* code, and has an error exactly when success is false.
C13_UniformShape ==
    Returned =>
        /\ {"success", "text", "language"} \subseteq DOMAIN Result
        /\ "language" \in DOMAIN Result => Result.language \in Langs
        /\ "error" \in DOMAIN Result <=> ~Result.success

\* C16: the model of the resolved language is resolved before the audio is
\* normalized: while get_recognizer and get_model run no WAV file has been
\* produced yet, and a call that fails for a missing model has never
\* invoked the normalizer.
C16_ModelBeforeNormalizer ==
    /\ frame.pc \in {"recognizer", "get_model"} =>
          frame.wav_path = 0 /\ frame.made = 0
    /\ Returned /\ frame.fault = "model" =>
          frame.wav_path = 0 /\ frame.made = 0

\* C17: a successful call has created one recognizer, fed it every chunk
\* and then called FinalResult exactly once, whether or not a chunk gave an
\* utterance boundary; in no call is a chunk fed after FinalResult, and no
\* call starts with a recognizer left by another one.
C17_FinalizeOnce ==
    LET ops == frame.ops
    IN  /\ Returned /\ Result.success =>
              /\ Len(ops) = frame.pos + 1
              /\ ops[1] = "new"
              /\ ops[Len(ops)] = "final"
              /\ \A i \in 2..(Len(ops) - 1) : ops[i] = "feed"
        /\ \A i, j \in 1..Len(ops) :
              i < j /\ ops[i] = "final" => ops[j] # "feed"
        /\ \A i \in 1..Len(ops) : ops[i] = "new" <=> i = 1
        /\ frame.pc \in {"idle", "enter", "convert", "recognizer", "get_model"}
              => frame.recognizer = <<>> /\ ops = <<>>
        /\ frame.recognizer # <<>> => ops # <<>>

C17_Witness ==
    /\ Returned /\ Result.success
    /\ frame.pos = 3
    /\ frame.result_text = <<>>
    /\ frame.ops = <<"new", "feed", "feed", "final">>

----------------------------------------------------------------------------
(* Post-processing of every short raw transcript: a call that has fed one  *)
(* chunk for which the English recognizer returned `raw`, has finalized    *)
(* and has deleted its WAV file.                                           *)

RawTexts == UNION {[1..n -> Chars] : n \in 0..MaxLen}

InitPost ==
    /\ VOSK_AVAILABLE = TRUE
    /\ PYDUB_AVAILABLE = TRUE
    /\ pathExists = [l \in Langs |-> l = "en"]
    /\ _model_cache = CachePut(<<>>, "en", <<"en", 1>>)
    /\ loads = [l \in Langs |-> IF l = "en" THEN 1 ELSE 0]
    /\ tmpFiles = {}
    /\ gm = [t \in Threads |-> IdleGm]
    /\ InitRest
    /\ \E raw \in RawTexts :
          frame = [IdleFrame EXCEPT !.pc = "post", !.language = "en",
                                    !.vosk_lang = "en", !.wav_path = 1,
                                    !.made = 1, !.recognizer = <<"en", 1>>,
                                    !.pos = 2, !.heard = HasVisible(raw),
                                    !.ops = <<"new", "feed", "final">>,
                                    !.result_text = Collect(<<>>, raw)]

NextPost == T_Post \/ D_Return

SpecPost == InitPost /\ [][NextPost]_vars

\* post-processing as the claim describes it: only the first character of
\* each segment is changed
ExpectedPostProcess(raw) ==
    IF raw = <<>> THEN <<>>
    ELSE LET segments == Split(raw)
             joined == Join([i \in 1..Len(segments) |->
                               CapitalizeKeepRest(segments[i])], <<".", " ">>)
         IN  IF EndsWithPeriod(joined) THEN joined ELSE joined \o <<".">>

\* C10: post-processing splits the raw text on ". ", upper-cases the first
\* character of each segment, leaves every other character unchanged and
\* rejoins with ". " (then the final period).
C10_FirstCharacterOnly ==
    Returned /\ Result.success =>
        Result.text = ExpectedPostProcess(JoinResults(frame.result_text))

----------------------------------------------------------------------------
(* Two calls on the same audio and the same world: language "auto", then   *)
(* language "en" after the world has been put back as it was.              *)

FinalTexts == {[kind |-> "text", text |-> f] : f \in Fragments}

NoFaults ==
    [convert |-> "ok", load |-> FALSE, recognizer |-> FALSE, open |-> FALSE,
     chunks |-> <<>>, final |-> [kind |-> "text", text |-> <<>>],
     unlink |-> FALSE]

\* an audio and at most one fault
Scripts ==
    {[NoFaults EXCEPT !.chunks = c, !.final = f] :
        c \in UNION {[1..n -> ChunkEvents] : n \in 1..MaxChunks},
        f \in FinalTexts \cup {[kind |-> "raise", text |-> <<>>]}}
    \cup {NoFaults,
          [NoFaults EXCEPT !.convert = "decode_fail"],
          [NoFaults EXCEPT !.convert = "export_fail"],
          [NoFaults EXCEPT !.load = TRUE],
          [NoFaults EXCEPT !.recognizer = TRUE],
          [NoFaults EXCEPT !.open = TRUE],
          [NoFaults EXCEPT !.final = [kind |-> "raise", text |-> <<>>]],
          [NoFaults EXCEPT !.unlink = TRUE]}

InitPair ==
    /\ InitWorld
    /\ frame = IdleFrame
    /\ gm = [t \in Threads |-> IdleGm]
    /\ script \in {<<s>> : s \in Scripts}
    /\ pair = [phase |-> "start", auto |-> <<>>, en |-> <<>>]
    /\ reqs = <<>>
    /\ db = {}
    /\ health = [pending |-> FALSE, response |-> <<>>]
    /\ hist = NoHist

P_CallAuto ==
    /\ pair.phase = "start"
    /\ frame.pc = "idle"
    /\ frame' = Enter(0, "auto")
    /\ pair' = [pair EXCEPT !.phase = "auto"]
    /\ UNCHANGED <<worldVars, gm, script, reqs, db, health, hist>>

\* the first result is kept and the world is put back: models and files as
\* at the start
P_ReturnAuto ==
    /\ pair.phase = "auto"
    /\ frame.pc = "returned"
    /\ pair' = [pair EXCEPT !.phase = "between", !.auto = frame.ret]
    /\ frame' = IdleFrame
    /\ _model_cache' = <<>>
    /\ loads' = [l \in Langs |-> 0]
    /\ tmpFiles' = {}
    /\ UNCHANGED <<VOSK_AVAILABLE, PYDUB_AVAILABLE, pathExists, gm, script,
                   reqs, db, health, hist>>

P_CallEn ==
    /\ pair.phase = "between"
    /\ frame' = Enter(0, "en")
    /\ pair' = [pair EXCEPT !.phase = "en"]
    /\ UNCHANGED <<worldVars, gm, script, reqs, db, health, hist>>

P_ReturnEn ==
    /\ pair.phase = "en"
    /\ frame.pc = "returned"
    /\ pair' = [pair EXCEPT !.phase = "done", !.en = frame.ret]
    /\ frame' = IdleFrame
    /\ UNCHANGED <<worldVars, gm, script, reqs, db, health, hist>>

NextPair ==
    \/ P_CallAuto \/ P_ReturnAuto \/ P_CallEn \/ P_ReturnEn
    \/ T_Enter \/ T_Convert \/ T_GetRecognizer
    \/ GM_Check(0) \/ GM_Path(0) \/ GM_Load(0) \/ GM_Store(0)
    \/ T_Recognizer \/ T_Open \/ T_Feed \/ T_Final \/ T_Finally \/ T_Post

SpecPair == InitPair /\ [][NextPair]_vars

\* C7: on the same audio and the same models and files, language "auto" and
\* language "en" return the same result, and "auto" resolves to "en".
C7_AutoIsEnglish ==
    /\ pair.phase = "done" => pair.auto = pair.en
    /\ frame.language = "auto" /\ frame.vosk_lang # "" =>
          frame.vosk_lang = "en"

C7_Witness ==
    /\ pair.phase = "done"
    /\ pair.auto[1].success
    /\ pair.auto[1].text # <<>>
    /\ pair.en[1].language = "en"

\* the 'text' of every Result() and of the FinalResult() that a call reads
\* when the environment replays s to the end, in order
EmittedBy(s) ==
    LET results == SelectSeq(s.chunks, LAMBDA e : e.kind = "text")
    IN  [i \in 1..Len(results) |-> results[i].text] \o <<s.final.text>>

\* the fragments that have a character other than whitespace
Kept(fragments) == SelectSeq(fragments, HasVisible)

----------------------------------------------------------------------------
(* Threads calling get_model at the same time *)

\* a thread calls get_model(lang)
R_Call(t) ==
    /\ gm[t].pc = "idle"
    /\ \E lang \in Langs \cup {"fr"} :
          gm' = [gm EXCEPT ![t] = [IdleGm EXCEPT !.pc = "check", !.lang = lang]]
    /\ UNCHANGED <<worldVars, frame, restVars>>

\* the thread has its answer and may call again
R_Return(t) ==
    /\ gm[t].pc = "ret"
    /\ gm' = [gm EXCEPT ![t] = IdleGm]
    /\ UNCHANGED <<worldVars, frame, restVars>>

InitRegistry ==
    /\ InitCore
    /\ PYDUB_AVAILABLE

NextRegistry ==
    \E t \in 1..NumThreads :
        \/ R_Call(t) \/ GM_Check(t) \/ GM_Path(t) \/ GM_Load(t) \/ GM_Store(t)
        \/ R_Return(t)

SpecRegistry == InitRegistry /\ [][NextRegistry]_vars

\* the thread is between its cache miss and its return with a new model
Loading(t, l) == gm[t].lang = l /\ gm[t].pc \in {"load", "store"}

\* C4: concurrent get_model calls for one uncached language whose model
\* location exists load the model once: at most one load is in flight per
\* language, one Model is constructed, and all callers get the same handle.
C4_SingleLoad ==
    \A l \in Langs :
        /\ loads[l] <= 1
        /\ \A t1, t2 \in 1..NumThreads :
              /\ Loading(t1, l) /\ Loading(t2, l) => t1 = t2
              /\ ( /\ gm[t1].pc = "ret" /\ gm[t1].lang = l /\ gm[t1].ret # <<>>
                   /\ gm[t2].pc = "ret" /\ gm[t2].lang = l /\ gm[t2].ret # <<>> )
                 => gm[t1].ret = gm[t2].ret

----------------------------------------------------------------------------
(* The HTTP service: handlers run on one event loop.  A handler runs from  *)
(* one `await` that gives the loop back to the next; transcribe_audio has  *)
(* no such await, so the loop is taken from its call to its return.        *)

\* requests POST /transcribe the service receives
NumReqs == 1

Reqs == 1..NumReqs

\* a request and the locals of its handler; oversize is file.size >
\* MAX_FILE_SIZE, status is the HTTP status of the response (0: none yet);
\* cleanup is the outcome of the finally clause ("" while it has not run,
\* then "done" or "failed"; it is history)
NewReq ==
    [pc |-> "new", language |-> "", oversize |-> FALSE, tmp_path |-> 0,
     status |-> 0, result |-> <<>>, response |-> <<>>, cleanup |-> ""]

\* nothing runs on the event loop
LoopFree == frame.pc = "idle"

\* lang_names of get_available_languages
lang_names == [l \in Langs |->
                 CASE l = "en" -> "English" [] l = "ru" -> "Russian"
                   [] OTHER -> "Kazakh"]

\* get_available_languages(): the languages whose model path exists
get_available_languages ==
    [l \in {x \in Langs : pathExists[x]} |-> lang_names[l]]

\* a variant whose `ready` leaves PYDUB_AVAILABLE out
health_check_without_pydub ==
    LET models_available ==
            IF VOSK_AVAILABLE THEN [l \in Langs |-> pathExists[l]] ELSE <<>>
    IN  [vosk_available |-> VOSK_AVAILABLE,
         pydub_available |-> PYDUB_AVAILABLE,
         models_available |-> models_available,
         ready |-> /\ VOSK_AVAILABLE
                   /\ \E l \in DOMAIN models_available : models_available[l]]

\* health_check()
health_check ==
    LET models_available ==
            IF VOSK_AVAILABLE THEN [l \in Langs |-> pathExists[l]] ELSE <<>>
    IN  [vosk_available |-> VOSK_AVAILABLE,
         pydub_available |-> PYDUB_AVAILABLE,
         models_available |-> models_available,
         ready |-> /\ VOSK_AVAILABLE
                   /\ PYDUB_AVAILABLE
                   /\ \E l \in DOMAIN models_available : models_available[l]]

\* a GET /health request arrives (the previous response is forgotten)
HealthArrive ==
    /\ ~health.pending
    /\ health' = [pending |-> TRUE, response |-> <<>>]
    /\ UNCHANGED <<worldVars, frame, gm, script, pair, reqs, db, hist>>

\* health_check_endpoint: runs when the event loop is free
health_check_endpoint ==
    /\ health.pending
    /\ LoopFree
    /\ health' = [pending |-> FALSE,
                  response |->
                    <<[status |-> IF health_check.ready THEN "healthy"
                                  ELSE "limited",
                       vosk_available |-> health_check.vosk_available,
                       models_available |-> health_check.models_available,
                       available_languages |-> get_available_languages]>>]
    /\ UNCHANGED <<worldVars, frame, gm, script, pair, reqs, db, hist>>

\* a variant of the language validation that accepts every code
LanguageAcceptedAlways(language) == TRUE

\* the language validation of transcribe_audio_file
LanguageAccepted(language) ==
    language \in DOMAIN get_available_languages \/ language = "auto"

\* the handler is over: status code and body of the response
Respond(q, status, body) ==
    [q EXCEPT !.pc = "done", !.status = status, !.result = <<>>,
              !.response = body]

\* the body of a TranscriptionResponse built from the pipeline's result
Body(id, language, result) ==
    <<[id |-> id,
       language |-> IF "language" \in DOMAIN result THEN result.language
                    ELSE language,
       text |-> result.text,
       success |-> result.success,
       error |-> IF "error" \in DOMAIN result THEN result.error ELSE ""]>>

\* a variant of the finally clause that deletes nothing
AfterNoCleanup(tmp_path, fails) == tmpFiles

\* the files left by the finally clause of transcribe_audio_file
AfterCleanup(tmp_path, fails) ==
    IF tmp_path \in tmpFiles /\ ~fails THEN tmpFiles \ {tmp_path} ELSE tmpFiles

\* the handler leaves through its finally clause with the response
\* (status, body), or with HTTP 500 when os.unlink raises
Finally(q, status, body, fails) ==
    IF q.tmp_path \in tmpFiles /\ fails
    THEN Respond([q EXCEPT !.cleanup = "failed"], 500, <<>>)
    ELSE Respond([q EXCEPT !.cleanup = "done"], status, body)

\* transcribe_audio_file up to `await file.read()`: the three validations
\* and the creation of the upload's temporary file
H_Begin(r) ==
    /\ reqs[r].pc = "new"
    /\ LoopFree
    /\ \E language \in LanguageInputs, oversize \in BOOLEAN,
          format_ok \in BOOLEAN :
          LET q == [reqs[r] EXCEPT !.language = language,
                                   !.oversize = oversize]
          IN  IF oversize
              THEN /\ reqs' = [reqs EXCEPT ![r] = Respond(q, 413, <<>>)]
                   /\ UNCHANGED tmpFiles
              ELSE IF ~format_ok \/ ~LanguageAccepted(language)
              THEN /\ reqs' = [reqs EXCEPT ![r] = Respond(q, 400, <<>>)]
                   /\ UNCHANGED tmpFiles
              ELSE IF ~CanCreateTmp
              THEN /\ reqs' = [reqs EXCEPT ![r] = Respond(q, 500, <<>>)]
                   /\ UNCHANGED tmpFiles
              ELSE /\ reqs' = [reqs EXCEPT ![r] =
                                 [q EXCEPT !.pc = "reading",
                                           !.tmp_path = FreshTmp]]
                   /\ tmpFiles' = tmpFiles \cup {FreshTmp}
    /\ UNCHANGED <<VOSK_AVAILABLE, PYDUB_AVAILABLE, pathExists, _model_cache,
                   loads, frame, gm, script, pair, db, health, hist>>

\* from the upload being read to the call of transcribe_audio; a failing
\* read or write ends in the except and finally clauses
H_Resume(r) ==
    /\ reqs[r].pc = "reading"
    /\ LoopFree
    /\ \E read_fails \in BOOLEAN, unlink_fails \in UnlinkFails :
          IF read_fails
          THEN /\ reqs' = [reqs EXCEPT ![r] =
                              Finally(@, 500, <<>>, unlink_fails)]
               /\ tmpFiles' = AfterCleanup(reqs[r].tmp_path, unlink_fails)
               /\ UNCHANGED frame
          ELSE /\ reqs' = [reqs EXCEPT ![r].pc = "transcribing"]
               /\ frame' = Enter(r, reqs[r].language)
               /\ UNCHANGED tmpFiles
    /\ UNCHANGED <<VOSK_AVAILABLE, PYDUB_AVAILABLE, pathExists, _model_cache,
                   loads, gm, script, pair, db, health, hist>>

\* transcribe_audio has returned: a successful result goes to
\* `await db.transcriptions.insert_one`, a failed one is answered at once
H_Transcribed(r) ==
    /\ reqs[r].pc = "transcribing"
    /\ frame.pc = "returned"
    /\ frame.caller = r
    /\ frame' = IdleFrame
    /\ LET result == frame.ret[1]
       IN  IF result.success
           THEN /\ reqs' = [reqs EXCEPT ![r].pc = "inserting",
                                        ![r].result = <<result>>]
                /\ UNCHANGED tmpFiles
           ELSE \E unlink_fails \in UnlinkFails :
                   /\ reqs' = [reqs EXCEPT ![r] =
                                 Finally(@, 200,
                                         Body(r, reqs[r].language, result),
                                         unlink_fails)]
                   /\ tmpFiles' = AfterCleanup(reqs[r].tmp_path, unlink_fails)
    /\ UNCHANGED <<VOSK_AVAILABLE, PYDUB_AVAILABLE, pathExists, _model_cache,
                   loads, gm, script, pair, db, health, hist>>

\* insert_one has finished: the record is stored and the response built,
\* or the insert raised; then the finally clause
H_Inserted(r) ==
    /\ reqs[r].pc = "inserting"
    /\ LoopFree
    /\ \E insert_fails \in BOOLEAN, unlink_fails \in UnlinkFails :
          /\ db' = IF insert_fails THEN db ELSE db \cup {r}
          /\ reqs' = [reqs EXCEPT ![r] =
                        IF insert_fails
                        THEN Finally(@, 500, <<>>, unlink_fails)
                        ELSE Finally(@, 200,
                                     Body(r, reqs[r].language, reqs[r].result[1]),
                                     unlink_fails)]
          /\ tmpFiles' = AfterCleanup(reqs[r].tmp_path, unlink_fails)
    /\ UNCHANGED <<VOSK_AVAILABLE, PYDUB_AVAILABLE, pathExists, _model_cache,
                   loads, frame, gm, script, pair, health, hist>>

transcribe_audio_file(r) ==
    H_Begin(r) \/ H_Resume(r) \/ H_Transcribed(r) \/ H_Inserted(r)

Init ==
    /\ InitWorld
    /\ frame = IdleFrame
    /\ gm = [t \in Threads |-> IdleGm]
    /\ script = <<>>
    /\ pair = [phase |-> "off", auto |-> <<>>, en |-> <<>>]
    /\ reqs = [r \in Reqs |-> NewReq]
    /\ db = {}
    /\ health = [pending |-> FALSE, response |-> <<>>]
    /\ hist = NoHist

Next ==
    \/ \E r \in Reqs :
          H_Begin(r) \/ H_Resume(r) \/ H_Transcribed(r) \/ H_Inserted(r)
    \/ T_Enter \/ T_Convert \/ T_GetRecognizer
    \/ GM_Check(0) \/ GM_Path(0) \/ GM_Load(0) \/ GM_Store(0)
    \/ T_Recognizer \/ T_Open \/ T_Feed \/ T_Final \/ T_Finally \/ T_Post
    \/ HealthArrive \/ health_check_endpoint

Spec == Init /\ [][Next]_vars

----------------------------------------------------------------------------
(* Properties of the service, checked under Spec *)

\* transcribe_audio, called by a request, is converting or recognizing
InPipeline ==
    /\ frame.caller \in Reqs
    /\ frame.pc \in {"convert", "recognizer", "get_model", "open", "feed",
                     "final"}

\* C5: a transcription in progress does not block the service: while a
\* request is inside normalization or recognition, a health check that has
\* arrived can be served before the transcription completes.
C5_HealthNotBlocked ==
    health.pending /\ InPipeline => ENABLED health_check_endpoint

\* the language is not "auto" and not one of the available languages
InvalidLanguage(language) ==
    /\ language # "auto"
    /\ language \notin Langs \/ ~pathExists[language]

\* the request never got a temporary file, a transcribe_audio call or a
\* document in the datastore
NothingDone(r) ==
    /\ reqs[r].pc = "done"
    /\ reqs[r].tmp_path = 0
    /\ reqs[r].response = <<>>
    /\ frame.caller # r
    /\ r \notin db

\* C8 as stated: a request with an invalid language is rejected with HTTP
\* 400 before the pipeline is reached.
C8_Rejected400 ==
    \A r \in Reqs :
        reqs[r].pc # "new" /\ InvalidLanguage(reqs[r].language) =>
            reqs[r].status = 400 /\ NothingDone(r)

\* C8, amended: a request with an invalid language is rejected before the
\* pipeline is reached, with HTTP 413 when the upload exceeds the maximum
\* file size and with HTTP 400 otherwise: no temporary file, no call of
\* transcribe_audio, no model load and no datastore write for it.
C8_RejectedBeforePipeline ==
    \A r \in Reqs :
        reqs[r].pc # "new" /\ InvalidLanguage(reqs[r].language) =>
            /\ reqs[r].status = IF reqs[r].oversize THEN 413 ELSE 400
            /\ NothingDone(r)

C8_Witness ==
    \E r \in Reqs :
        /\ reqs[r].pc = "done"
        /\ reqs[r].language = "ru"
        /\ ~pathExists["ru"]
        /\ reqs[r].status = 400

----------------------------------------------------------------------------
(* The POST /transcribe requests alone *)

NextUpload ==
    \/ \E r \in Reqs :
          H_Begin(r) \/ H_Resume(r) \/ H_Transcribed(r) \/ H_Inserted(r)
    \/ T_Enter \/ T_Convert \/ T_GetRecognizer
    \/ GM_Check(0) \/ GM_Path(0) \/ GM_Load(0) \/ GM_Store(0)
    \/ T_Recognizer \/ T_Open \/ T_Feed \/ T_Final \/ T_Finally \/ T_Post

SpecUpload == Init /\ [][NextUpload]_vars

\* the step in which the handler of request r finishes
Finishes(r) == reqs[r].pc # "done" /\ reqs'[r].pc = "done"

\* a document is inserted for request r only with a successful result
InsertedOnlyOnSuccess(r) ==
    r \in db' /\ r \notin db =>
        reqs[r].result # <<>> /\ reqs[r].result[1].success

----------------------------------------------------------------------------
(* The history endpoints GET and DELETE /transcriptions/{id}, next to the  *)
(* POST /transcribe requests that create the documents.                    *)

\* ids a client may ask for: the ids of the requests, and 0 for an id that
\* no response ever carried
Ids == 0..NumReqs

\* get_transcription: find_one raises, finds the document or finds nothing
get_transcription(id) ==
    /\ LoopFree
    /\ \E find_fails \in BOOLEAN :
          hist' = [hist EXCEPT !.op = "get", !.id = id,
                               !.status = IF find_fails THEN 500
                                          ELSE IF id \in db THEN 200 ELSE 404]
    /\ UNCHANGED <<worldVars, frame, gm, script, pair, reqs, db, health>>

\* delete_transcription: delete_one raises, deletes the document or
\* deletes nothing (deleted_count == 0)
delete_transcription(id) ==
    /\ LoopFree
    /\ \E delete_fails \in BOOLEAN :
          IF delete_fails
          THEN /\ hist' = [hist EXCEPT !.op = "delete", !.id = id,
                                       !.status = 500]
               /\ UNCHANGED db
          ELSE IF id \in db
          THEN /\ hist' = [hist EXCEPT !.op = "delete", !.id = id,
                                       !.status = 200,
                                       !.deleted = @ \cup {id}]
               /\ db' = db \ {id}
          ELSE /\ hist' = [hist EXCEPT !.op = "delete", !.id = id,
                                       !.status = 404]
               /\ UNCHANGED db
    /\ UNCHANGED <<worldVars, frame, gm, script, pair, reqs, health>>

NextHistory ==
    \/ \E r \in Reqs :
          H_Begin(r) \/ H_Resume(r) \/ H_Transcribed(r) \/ H_Inserted(r)
    \/ T_Enter \/ T_Convert \/ T_GetRecognizer
    \/ GM_Check(0) \/ GM_Path(0) \/ GM_Load(0) \/ GM_Store(0)
    \/ T_Recognizer \/ T_Open \/ T_Feed \/ T_Final \/ T_Finally \/ T_Post
    \/ \E id \in Ids : get_transcription(id) \/ delete_transcription(id)

SpecHistory == Init /\ [][NextHistory]_vars

\* POST /transcribe has answered HTTP 200 with this id
Issued(id) ==
    /\ id \in Reqs
    /\ reqs[id].pc = "done"
    /\ reqs[id].status = 200
    /\ reqs[id].response # <<>>
    /\ reqs[id].response[1].id = id

\* this step is the datastore's answer to the request op on id
Answered(op, id) ==
    /\ hist' # hist
    /\ hist'.op = op
    /\ hist'.id = id
    /\ hist'.status # 500

\* C12: an id returned in an HTTP 200 response of POST /transcribe is
\* answered with 200 by GET and by DELETE /transcriptions/{id} as long as
\* it has not been deleted; GET answers 404 for an id that is not stored
\* (never stored, or deleted).
C12_IdsRetrievable ==
    [][\A id \in Ids :
          /\ Answered("get", id) /\ Issued(id) /\ id \notin hist.deleted =>
                hist'.status = 200
          /\ Answered("delete", id) /\ Issued(id) /\ id \notin hist.deleted =>
                hist'.status = 200
          /\ Answered("get", id) /\ id \notin db => hist'.status = 404]_vars

----------------------------------------------------------------------------
(* One caller resolving models one call after the other, and the health    *)
(* check, while model directories are removed and put back between the     *)
(* calls.                                                                  *)

\* nothing is inside get_model
BetweenCalls == \A t \in Threads : gm[t].pc = "idle"

\* the directory MODEL_PATHS[l] is removed from the disk
E_RemoveModelDir(l) ==
    /\ BetweenCalls
    /\ pathExists[l]
    /\ pathExists' = [pathExists EXCEPT ![l] = FALSE]
    /\ UNCHANGED <<VOSK_AVAILABLE, PYDUB_AVAILABLE, _model_cache, loads,
                   tmpFiles, frame, gm, restVars>>

\* a model is unpacked at MODEL_PATHS[l]
E_CreateModelDir(l) ==
    /\ BetweenCalls
    /\ ~pathExists[l]
    /\ pathExists' = [pathExists EXCEPT ![l] = TRUE]
    /\ UNCHANGED <<VOSK_AVAILABLE, PYDUB_AVAILABLE, _model_cache, loads,
                   tmpFiles, frame, gm, restVars>>

NextSeq ==
    \/ R_Call(1) \/ GM_Check(1) \/ GM_Path(1) \/ GM_Load(1) \/ GM_Store(1)
    \/ R_Return(1)
    \/ \E l \in Langs : E_RemoveModelDir(l) \/ E_CreateModelDir(l)
    \/ HealthArrive \/ health_check_endpoint

SpecSeq == InitCore /\ [][NextSeq]_vars

\* engine and decoder are available and a configured model location exists
EngineDecoderModel ==
    /\ VOSK_AVAILABLE
    /\ PYDUB_AVAILABLE
    /\ \E l \in Langs : pathExists[l]

\* C11: health_check reports ready exactly when the engine is available,
\* the decoder is available and at least one configured model location
\* exists when it is called; the answer of /api/health built at that moment
\* has status "healthy" when ready and "limited" otherwise.
C11_HealthReady ==
    /\ [](health_check.ready <=> EngineDecoderModel)
    /\ [][health.response = <<>> /\ health'.response # <<>> =>
             health'.response[1].status =
                 IF EngineDecoderModel THEN "healthy" ELSE "limited"]_vars

C11_Witness ==
    /\ health.response # <<>>
    /\ health.response[1].status = "limited"
    /\ VOSK_AVAILABLE /\ ~PYDUB_AVAILABLE
    /\ \E l \in Langs : health.response[1].models_available[l]

\* C14: get_model returns no model whenever the configured location of the
\* language does not exist when it is called, also when a model of that
\* language is already in the cache.
C14_MissingLocationFails ==
    \A t \in Threads :
        gm[t].pc = "ret" /\ gm[t].lang \in Langs /\ ~pathExists[gm[t].lang]
            => gm[t].ret = <<>>

\* C15: over sequential get_model calls a language is loaded at most once:
\* a returned handle is the one in the cache, put there before the return;
\* a cache entry is never removed or replaced; a language in the cache is
\* not loaded again; and only a call that returns a handle changes the cache.
C15_LoadedOnce ==
    /\ [](/\ \A l \in Langs : loads[l] <= 1
          /\ \A t \in Threads :
                gm[t].pc = "ret" /\ gm[t].ret # <<>> =>
                    /\ gm[t].lang \in DOMAIN _model_cache
                    /\ _model_cache[gm[t].lang] = gm[t].ret)
    /\ [][/\ \A l \in DOMAIN _model_cache :
                l \in DOMAIN _model_cache' /\ _model_cache'[l] = _model_cache[l]
          /\ \A l \in Langs :
                loads'[l] # loads[l] => l \notin DOMAIN _model_cache
          /\ _model_cache' # _model_cache =>
                \E t \in Threads : gm'[t].pc = "ret" /\ gm'[t].ret # <<>>]_vars

C15_Witness ==
    /\ gm[1].pc = "ret"
    /\ gm[1].lang = "en"
    /\ gm[1].ret = <<"en", 1>>
    /\ gm[1].model = <<>>
    /\ loads["en"] = 1

====
